---- MODULE Spec2Model ----
(***************************************************************************)
(* Model of caffeine_app.py, a Streamlit page.  Streamlit re-executes the  *)
(* whole script once per user event: on_click callbacks first, then the    *)
(* script body top to bottom, in which the widget that was operated        *)
(* returns its new value.  One action of the model is one such event       *)
(* together with the complete run it triggers.                             *)
(*                                                                         *)
(* Times are held in minutes: a value h of the program that is a number of *)
(* hours is held as 60*h.  A dose (day, dose_time, dose_mg) is the tuple   *)
(* <<day, 60*dose_time, dose_mg>>, selected_total_hr holds                 *)
(* 60*st.session_state.selected_total_hr.                                  *)
(***************************************************************************)
EXTENDS Integers, Sequences, FiniteSets, TLC

VARIABLES
    doses,              \* st.session_state.doses
    dose_value,         \* st.session_state.dose_value
    day,                \* st.session_state.day
    hour,               \* st.session_state.hour
    minute,             \* st.session_state.minute
    selected_total_hr,  \* st.session_state.selected_total_hr, in minutes
    page,               \* how the last run ended: "info", "chart", "exception"
    last,               \* the event the last run handled ("input": a pending-input widget)
    calc,               \* a direct call of one function: arguments and result
    slider_strict       \* whether st.slider raises on a value above max_value

vars == <<doses, dose_value, day, hour, minute, selected_total_hr,
          page, last, calc, slider_strict>>

pending == <<dose_value, day, hour, minute>>

\* ---------------------------------------------------------------- bounds
\* Longest dose list the user builds.
MaxDoses == 2

\* Slider positions the user drags to: the first MaxSliderK steps of the
\* slider's grid and its last step.
MaxSliderK == 2

\* Largest pending day and dose amount the user steps or types up to.
MaxDay == 1
MaxDoseValue == 100

\* Values the user types into the hour, minute, day and dose number inputs
\* while building a dose list (each inside the widget's min_value/max_value).
DayInputs == {1}
HourInputs == {8, 9}
MinuteInputs == {0, 30}
DoseInputs == {100}

\* Values typed into the day input when only the pending fields are studied.
PendingDayInputs == 0..MaxDay

\* Deltas the callbacks are called with directly.
CallDeltas == {-75, -10, -1, 1, 10, 75}

\* Direct calls of cumulative_caffeine: at most MaxAggDoses doses, doses and
\* time point on whole hours up to MaxAggHour.
MaxAggDoses == 2
MaxAggHour == 30
AggAmounts == {40, 100}

Max(a, b) == IF a >= b THEN a ELSE b
Min(a, b) == IF a <= b THEN a ELSE b

\* ------------------------------------------------------- the dose list
total_hr(d) == d[2] + d[1] * 1440

RECURSIVE MinTotal(_)
MinTotal(ds) ==
    IF Len(ds) = 1 THEN total_hr(ds[1])
    ELSE Min(total_hr(ds[1]), MinTotal(Tail(ds)))

RECURSIVE MaxTotal(_)
MaxTotal(ds) ==
    IF Len(ds) = 1 THEN total_hr(ds[1])
    ELSE Max(total_hr(ds[1]), MaxTotal(Tail(ds)))

first_dose_total(ds) == MinTotal(ds)
last_dose_total(ds) == MaxTotal(ds)
max_total_hr(ds) == last_dose_total(ds) + 1440

\* pop with the index ignored: the last dose is removed.
pop_mut(ds, idx) == SubSeq(ds, 1, Len(ds) - 1)

\* list.pop(idx), idx counted from 0
pop(ds, idx) == [i \in 1..(Len(ds) - 1) |-> IF i <= idx THEN ds[i] ELSE ds[i + 1]]

\* ---------------------------------------------------------- the decay
\* 0.5 ** k is held as the integer Scale * 0.5 ** k, exact for whole k with
\* -MaxExp <= k <= MaxExp; an amount of x mg is then held as Scale * x.
MaxExp == (MaxAggHour * 60) \div 180
Scale == 2 ^ MaxExp
half_pow(k) == IF k >= 0 THEN Scale \div (2 ^ k) ELSE Scale * (2 ^ (0 - k))

\* Defined where elapsed_hr is a whole number of half-lives.
caffeine_remaining(dose_mg, elapsed_hr, half_life) ==
    dose_mg * half_pow(elapsed_hr \div half_life)

\* No clamp of negative elapsed time.
clamp_elapsed_mut(elapsed) == elapsed

\* elapsed[elapsed < 0] = 0
clamp_elapsed(elapsed) == IF elapsed < 0 THEN 0 ELSE elapsed

\* cumulative_caffeine at one time point hours; the loop over doses runs
\* from the first dose to the last.
RECURSIVE cumulative_caffeine(_, _, _)
cumulative_caffeine(ds, hours, half_life) ==
    IF ds = <<>> THEN 0
    ELSE LET n == Len(ds)
             elapsed == clamp_elapsed(hours - total_hr(ds[n]))
         IN  cumulative_caffeine(SubSeq(ds, 1, n - 1), hours, half_life)
               + caffeine_remaining(ds[n][3], elapsed, half_life)

HalfLives == {180, 300, 420}

\* ------------------------------------------------------- the callbacks
\* The pending fields as the record the callbacks work on.
PendingState == [dose_value |-> dose_value, day |-> day, hour |-> hour, minute |-> minute]

change_value(s, key, delta, min_val) ==
    [s EXCEPT ![key] = Max(min_val, s[key] + delta)]

\* change_hour that drops the carry into the day.
change_hour_mut(s, delta) ==
    [s EXCEPT !.hour = (s.hour + delta) % 24]

change_hour(s, delta) ==
    LET total_hour == s.hour + delta
        extra_day == total_hour \div 24
    IN  change_value([s EXCEPT !.hour = total_hour % 24], "day", extra_day, 1)

\* change_minute that carries at most one hour.
change_minute_mut(s, delta) ==
    LET total_min == s.minute + delta
        extra_hour == IF total_min >= 60 THEN 1 ELSE IF total_min < 0 THEN -1 ELSE 0
    IN  change_hour([s EXCEPT !.minute = total_min % 60], extra_hour)

change_minute(s, delta) ==
    LET total_min == s.minute + delta
        extra_hour == total_min \div 60
    IN  change_hour([s EXCEPT !.minute = total_min % 60], extra_hour)

add_dose_value(s, delta) == change_value(s, "dose_value", delta, 0)

SetPending(s) ==
    /\ dose_value' = s.dose_value
    /\ day' = s.day
    /\ hour' = s.hour
    /\ minute' = s.minute

\* ------------------------------------------------------------ the page
\* The buttons, by the change each makes (nudges in minutes).
MinusNudges == {-600, -60, -15}
PlusNudges == {15, 60, 600}
DoseSteps == {-100, -10, -1, 1, 10, 100}
TimeSteps == {-10, -1, 1, 10}

NoEvent == [kind |-> "none", arg |-> 0]

\* No clamp of the selected time to the first dose.
clamp_low_mut(sel, first) == sel

\* Lines 168-169.
clamp_low(sel, first) == IF sel < first THEN first ELSE sel

\* st.slider(min, max, value, step=0.25) in the run of event ev: the position
\* the user dragged to when the event is a drag, the value passed otherwise.
slider(value, ev) == IF ev.kind = "slider" THEN ev.arg ELSE value

\* Lines 163-215 for the dose list ds and selected time sel, in the run of
\* event ev.  The slider is handed a value above its max_value when the
\* selected time is above max_total_hr; the library then either widens the
\* range and returns the value, or raises, which ends the run at line 177.
TimeSection(ds, sel, ev) ==
    IF ds = <<>>
    THEN [sel |-> sel, page |-> "info", clamped |-> FALSE]
    ELSE LET first == first_dose_total(ds)
             maxt == max_total_hr(ds)
             s1 == clamp_low(sel, first)
             s2 == IF ev.kind = "nudge" /\ ev.arg \in MinusNudges
                   THEN Max(first, s1 + ev.arg) ELSE s1
             s3 == slider(s2, ev)
             s4 == IF ev.kind = "nudge" /\ ev.arg \in PlusNudges
                   THEN Min(maxt, s3 + ev.arg) ELSE s3
         IN  IF s2 > maxt /\ slider_strict
             THEN [sel |-> s2, page |-> "exception", clamped |-> sel < first]
             ELSE [sel |-> s4, page |-> "chart", clamped |-> sel < first]

\* The slider's grid as rendered for ds and sel.
SliderPositions(ds, sel) ==
    LET first == first_dose_total(ds)
        top == Max(max_total_hr(ds), sel)
        n == (top - first) \div 15
    IN  {first + 15 * k : k \in (0..Min(MaxSliderK, n)) \cup {n}}

\* ------------------------------------------------------- initial state
NoCalc == [fn |-> "none", args |-> <<>>, result |-> 0, done |-> FALSE]

\* Lines 93-103.
defaults ==
    /\ doses = <<>>
    /\ dose_value = 100
    /\ day = 1
    /\ hour = 8
    /\ minute = 0
    /\ selected_total_hr = 0

Init ==
    /\ defaults
    /\ page = "info"
    /\ last = [op |-> "start", arg |-> 0, clamped |-> FALSE]
    /\ calc = NoCalc
    /\ slider_strict \in BOOLEAN

\* ------------------------------------------------------------- actions
\* The body of the script from line 163 on, for the dose list ds and the
\* selected time sel that lines 154-160 leave.
Render(ds, sel, ev, op, arg) ==
    LET r == TimeSection(ds, sel, ev)
    IN  /\ doses' = ds
        /\ selected_total_hr' = r.sel
        /\ page' = r.page
        /\ last' = [op |-> op, arg |-> arg, clamped |-> r.clamped]

\* Typing a value into one of the four number inputs (lines 133, 147).
NumberInput(Doses, Days, Hours, Minutes) ==
    /\ page # "callback_exception"
    /\ \/ \E v \in Doses : dose_value' = v /\ UNCHANGED <<day, hour, minute>>
       \/ \E v \in Days : day' = v /\ UNCHANGED <<dose_value, hour, minute>>
       \/ \E v \in Hours : hour' = v /\ UNCHANGED <<dose_value, day, minute>>
       \/ \E v \in Minutes : minute' = v /\ UNCHANGED <<dose_value, day, hour>>
    /\ Render(doses, selected_total_hr, NoEvent, "input", 0)
    /\ UNCHANGED <<calc, slider_strict>>

\* The dose with the day stored as displayed.
new_dose_mut == <<day, hour * 60 + minute, dose_value>>

\* The tuple line 156 builds.
new_dose == <<day - 1, hour * 60 + minute, dose_value>>

\* "Add Dose" (lines 154-157) and the rest of that run.
AddDose ==
    /\ Len(doses) < MaxDoses
    /\ Render(Append(doses, new_dose), selected_total_hr, NoEvent, "add", Len(doses))
    /\ UNCHANGED <<pending, calc, slider_strict>>

\* Clearing that leaves the selected time.
ClearDoses_mut ==
    /\ Render(<<>>, selected_total_hr, NoEvent, "clear", Len(doses))
    /\ UNCHANGED <<pending, calc, slider_strict>>

\* "Clear All Doses" (lines 158-160) and the rest of that run.
ClearDoses ==
    /\ Render(<<>>, 0, NoEvent, "clear", Len(doses))
    /\ UNCHANGED <<pending, calc, slider_strict>>

\* A nudge button (lines 173-175, 186-188).  The minus buttons are created
\* before the slider, the plus buttons after it.
Nudge ==
    /\ \E d \in MinusNudges \cup PlusNudges :
        /\ page = "chart" \/ (page = "exception" /\ d \in MinusNudges)
        /\ Render(doses, selected_total_hr, [kind |-> "nudge", arg |-> d], "nudge", 0)
    /\ UNCHANGED <<pending, calc, slider_strict>>

\* Dragging the slider (lines 177-184).
SliderSet ==
    /\ page = "chart"
    /\ \E v \in SliderPositions(doses, selected_total_hr) :
        Render(doses, selected_total_hr, [kind |-> "slider", arg |-> v], "slider", 0)
    /\ UNCHANGED <<pending, calc, slider_strict>>

\* "Delete" of row idx (lines 211-213): the run reaches the table when the
\* slider did not raise; it pops the row and st.rerun() runs the script
\* again from the top with no button pressed.
DeleteDose ==
    /\ page = "chart"
    /\ \E idx \in 0..(Len(doses) - 1) :
        LET r == TimeSection(doses, selected_total_hr, NoEvent)
        IN  /\ r.page = "chart"
            /\ Render(pop(doses, idx), r.sel, NoEvent, "delete", idx)
    /\ UNCHANGED <<pending, calc, slider_strict>>

\* The dose list and the selected time.  The stepper buttons are left to
\* SpecPending: they change the pending fields only, to values the number
\* inputs also accept.
Next ==
    \/ NumberInput(DoseInputs, DayInputs, HourInputs, MinuteInputs)
    \/ AddDose
    \/ ClearDoses
    \/ Nudge
    \/ SliderSet
    \/ DeleteDose

Spec == Init /\ [][Next]_vars

\* ------------------------------------------- the pending-input buttons
\* A dose button (lines 131-136): on_click calls add_dose_value(v).
DoseStepper ==
    /\ page # "callback_exception"
    /\ \E d \in DoseSteps :
        LET s == add_dose_value(PendingState, d)
        IN  /\ s.dose_value <= MaxDoseValue
            /\ SetPending(s)
    /\ Render(doses, selected_total_hr, NoEvent, "input", 0)
    /\ UNCHANGED <<calc, slider_strict>>

\* An hour button (lines 142-150): on_click calls change_hour(v).
HourStepper ==
    /\ page # "callback_exception"
    /\ \E d \in TimeSteps :
        LET s == change_hour(PendingState, d)
        IN  /\ s.day <= MaxDay
            /\ SetPending(s)
    /\ Render(doses, selected_total_hr, NoEvent, "input", 0)
    /\ UNCHANGED <<calc, slider_strict>>

\* A minute button (lines 142-150): on_click calls change_minute(v).
MinuteStepper ==
    /\ page # "callback_exception"
    /\ \E d \in TimeSteps :
        LET s == change_minute(PendingState, d)
        IN  /\ s.day <= MaxDay
            /\ SetPending(s)
    /\ Render(doses, selected_total_hr, NoEvent, "input", 0)
    /\ UNCHANGED <<calc, slider_strict>>

\* A day button (lines 142-150): the callback zipped with "day" is
\* change_value and on_click calls it as f(v), with one argument for its two
\* required parameters (key, delta): the call raises TypeError before the
\* body of change_value runs, and the run ends there.
day_button(s, v) == [state |-> s, result |-> "TypeError"]

DayStepper ==
    /\ page # "callback_exception"
    /\ \E d \in TimeSteps :
        LET r == day_button(PendingState, d)
        IN  /\ SetPending(r.state)
            /\ page' = (IF r.result = "ok" THEN page ELSE "callback_exception")
            /\ last' = [op |-> "day_step", arg |-> 0, clamped |-> FALSE]
    /\ UNCHANGED <<doses, selected_total_hr, calc, slider_strict>>

InitPending ==
    /\ defaults
    /\ page = "info"
    /\ last = [op |-> "start", arg |-> 0, clamped |-> FALSE]
    /\ calc = NoCalc
    /\ slider_strict = FALSE

\* The pending fields alone: the dose list stays empty, no slider is made.
\* A run that a callback ends renders no widget, and the session is followed
\* no further.
NextPending ==
    \/ NumberInput(DoseInputs, PendingDayInputs, HourInputs, MinuteInputs)
    \/ DoseStepper
    \/ DayStepper
    \/ HourStepper
    \/ MinuteStepper

SpecPending == InitPending /\ [][NextPending]_vars

\* ------------------------------------------- the callbacks, called directly
\* Any pending state the number inputs accept, and one call from it.
InitCalls ==
    /\ doses = <<>>
    /\ dose_value = 100
    /\ day \in 0..MaxDay
    /\ hour \in 0..23
    /\ minute \in 0..59
    /\ selected_total_hr = 0
    /\ page = "info"
    /\ last = [op |-> "start", arg |-> 0, clamped |-> FALSE]
    /\ calc = NoCalc
    /\ slider_strict = FALSE

Called(fn, delta, result) ==
    calc' = [fn |-> fn, args |-> <<PendingState, delta>>, result |-> result, done |-> TRUE]

CallChangeMinute ==
    /\ ~calc.done
    /\ \E d \in CallDeltas :
        /\ SetPending(change_minute(PendingState, d))
        /\ Called("change_minute", d, "ok")
    /\ UNCHANGED <<doses, selected_total_hr, page, last, slider_strict>>

CallChangeHour ==
    /\ ~calc.done
    /\ \E d \in CallDeltas :
        /\ SetPending(change_hour(PendingState, d))
        /\ Called("change_hour", d, "ok")
    /\ UNCHANGED <<doses, selected_total_hr, page, last, slider_strict>>

\* The on_click of a day button.
CallDayButton ==
    /\ ~calc.done
    /\ \E d \in TimeSteps :
        LET r == day_button(PendingState, d)
        IN  /\ SetPending(r.state)
            /\ Called("day_button", d, r.result)
    /\ UNCHANGED <<doses, selected_total_hr, page, last, slider_strict>>

NextCalls ==
    \/ CallChangeMinute
    \/ CallChangeHour
    \/ CallDayButton

SpecCalls == InitCalls /\ [][NextCalls]_vars

\* -------------------------------------- cumulative_caffeine, called directly
AggTimes == {60 * h : h \in 0..MaxAggHour}

\* The doses whose distance to time point t is a whole number of half-lives.
AggDoses(t, half_life) ==
    {d \in (0..1) \X {60 * h : h \in 0..23} \X AggAmounts :
        /\ total_hr(d) \in AggTimes
        /\ (t - total_hr(d)) % half_life = 0}

InitAgg ==
    /\ defaults
    /\ page = "info"
    /\ last = [op |-> "start", arg |-> 0, clamped |-> FALSE]
    /\ slider_strict = FALSE
    /\ \E half_life \in HalfLives : \E t \in AggTimes : \E n \in 0..MaxAggDoses :
       \E ds \in [1..n -> AggDoses(t, half_life)] :
          calc = [fn |-> "cumulative_caffeine", args |-> <<ds, t, half_life>>,
                  result |-> 0, done |-> FALSE]

CallCumulative ==
    /\ ~calc.done
    /\ calc' = [calc EXCEPT !.result = cumulative_caffeine(calc.args[1], calc.args[2], calc.args[3]),
                            !.done = TRUE]
    /\ UNCHANGED <<doses, pending, selected_total_hr, page, last, slider_strict>>

NextAgg == CallCumulative

SpecAgg == InitAgg /\ [][NextAgg]_vars

\* ============================================================== claims
\* Pending time in minutes since day 1, 00:00.
PendingT(s) == (s.day - 1) * 1440 + s.hour * 60 + s.minute

\* C1 (as claimed): whenever the dose list is non-empty after a run, the
\* selected time is at most the latest dose's day*24 + time-of-day, plus 24 h.
C1_SelectedAtMostMax ==
    doses # <<>> =>
        \E i \in 1..Len(doses) :
            /\ \A j \in 1..Len(doses) : total_hr(doses[j]) <= total_hr(doses[i])
            /\ selected_total_hr <= total_hr(doses[i]) + 1440

\* C2: whenever the dose list is non-empty after a run, the selected time is
\* at least the earliest dose's day*24 + time-of-day; and a delete that leaves
\* the selected time below the new earliest dose raises it to exactly that.
C2_SelectedAtLeastFirst ==
    doses # <<>> =>
        \E i \in 1..Len(doses) :
            /\ \A j \in 1..Len(doses) : total_hr(doses[i]) <= total_hr(doses[j])
            /\ selected_total_hr >= total_hr(doses[i])
            /\ (last.op = "delete" /\ last.clamped) =>
                   selected_total_hr = total_hr(doses[i])

\* A delete of the earliest dose has raised the selected time to the new
\* earliest dose.
C2_Witness ==
    /\ last.op = "delete"
    /\ last.clamped
    /\ doses = <<<<0, 570, 100>>>>
    /\ selected_total_hr = 570

\* C3 (as claimed): after any sequence of pending-input events, day >= 1,
\* hour in 0..23, minute in 0..59 and dose amount >= 0.
C3_PendingInRange ==
    /\ day >= 1
    /\ hour \in 0..23
    /\ minute \in 0..59
    /\ dose_value >= 0

\* C4 (as claimed): pressing a day button with delta d completes without
\* error and sets day to max(1, day + d), leaving everything else unchanged.
C4_DayButtonAdjusts ==
    (calc.done /\ calc.fn = "day_button") =>
        LET pre == calc.args[1]
            d == calc.args[2]
        IN  /\ calc.result = "ok"
            /\ day = Max(1, pre.day + d)
            /\ hour = pre.hour
            /\ minute = pre.minute
            /\ dose_value = pre.dose_value
            /\ doses = <<>>
            /\ selected_total_hr = 0

\* The call of C5: change_minute(75) from minute 50, hour 10, day 1.
C5_Case ==
    /\ calc.done
    /\ calc.fn = "change_minute"
    /\ calc.args = <<[dose_value |-> 100, day |-> 1, hour |-> 10, minute |-> 50], 75>>

\* C5 (as claimed): that call yields minute 5, hour 11, day 1.
C5_Original == C5_Case => (minute = 5 /\ hour = 11 /\ day = 1)

\* C5 (amended): that call yields minute 5, hour 12 (a carry of two hours),
\* day 1.
C5_Amended == C5_Case => (minute = 5 /\ hour = 12 /\ day = 1)

C5_Witness == C5_Case /\ hour = 12

\* C6: an Add Dose run appends exactly the dose (day - 1, hour + minute/60,
\* dose amount) at the end of the list, keeps every earlier dose in place
\* and leaves the pending fields unchanged.
C6_AddDoseAppends ==
    [][last'.op = "add" =>
        /\ Len(doses') = Len(doses) + 1
        /\ \A i \in 1..Len(doses) : doses'[i] = doses[i]
        /\ doses'[Len(doses')] = <<day - 1, 60 * hour + minute, dose_value>>
        /\ UNCHANGED <<day, hour, minute, dose_value>>]_vars

\* A second dose, 09:30 on day 1, has been appended after the 08:00 one.
C6_Witness ==
    /\ last.op = "add"
    /\ last.arg = 1
    /\ doses = <<<<0, 480, 100>>, <<0, 570, 100>>>>
    /\ <<day, hour, minute, dose_value>> = <<1, 9, 30, 100>>

\* C7: a Delete of row idx from n doses leaves n-1 doses: those before idx in
\* place, those after idx one position down, the pending fields unchanged.
C7_DeleteRemovesOne ==
    [][last'.op = "delete" =>
        LET idx == last'.arg
            n == Len(doses)
        IN  /\ idx \in 0..(n - 1)
            /\ Len(doses') = n - 1
            /\ \A i \in 1..idx : doses'[i] = doses[i]
            /\ \A i \in (idx + 1)..(n - 1) : doses'[i] = doses[i + 1]
            /\ UNCHANGED <<day, hour, minute, dose_value>>]_vars

\* Row 0 has been deleted and a later dose has moved down into its place.
C7_Witness ==
    /\ last.op = "delete"
    /\ last.arg = 0
    /\ Len(doses) = MaxDoses - 1
    /\ doses[1] = <<0, 510, 100>>

\* C8: a Clear run empties the dose list and sets the selected time to 0,
\* leaving the pending fields unchanged; and while the list is empty every
\* run other than an Add Dose run takes the informational path, no chart.
C8_ClearResets ==
    [][/\ last'.op = "clear" =>
            /\ doses' = <<>>
            /\ selected_total_hr' = 0
            /\ page' = "info"
            /\ UNCHANGED <<day, hour, minute, dose_value>>
       /\ (doses = <<>> /\ last'.op # "add") =>
            /\ doses' = <<>>
            /\ page' = "info"]_vars

\* A list of MaxDoses doses with a selected time has been cleared.
C8_Witness ==
    /\ last.op = "clear"
    /\ last.arg = MaxDoses
    /\ doses = <<>>
    /\ selected_total_hr = 0
    /\ page = "info"

\* The sum C9 names, in the Scale representation.
RECURSIVE C9_Sum(_, _, _)
C9_Sum(ds, t, half_life) ==
    IF ds = <<>> THEN 0
    ELSE LET d == Head(ds)
             at == d[1] * 1440 + d[2]
             part == IF at >= t THEN d[3] * Scale
                     ELSE (d[3] * Scale) \div (2 ^ ((t - at) \div half_life))
         IN  part + C9_Sum(Tail(ds), t, half_life)

\* C9: cumulative(doses, t, hl) is the sum over the doses of
\* amount * 0.5^(max(0, t - (day*24 + time_of_day)) / hl): a dose after t
\* counts in full, a dose k half-lives before t counts amount / 2^k, an
\* empty list gives 0.
C9_CumulativeIsClampedSum ==
    (calc.done /\ calc.fn = "cumulative_caffeine") =>
        LET ds == calc.args[1]
            t == calc.args[2]
            half_life == calc.args[3]
        IN  /\ calc.result = C9_Sum(ds, t, half_life)
            /\ ds = <<>> => calc.result = 0
            /\ (Len(ds) = 1 /\ ds[1][1] * 1440 + ds[1][2] >= t) =>
                   calc.result = ds[1][3] * Scale
            /\ (Len(ds) = 1 /\ ds[1][1] * 1440 + ds[1][2] <= t) =>
                   calc.result * 2 ^ ((t - (ds[1][1] * 1440 + ds[1][2])) \div half_life)
                       = ds[1][3] * Scale

\* 100 mg at 08:00 of day 1 and 40 mg taken at 18:00, after the time point
\* 13:00, half-life 5 h: 50 mg + 40 mg.
C9_Witness ==
    /\ calc.done
    /\ calc.fn = "cumulative_caffeine"
    /\ calc.args = <<<<<<0, 480, 100>>, <<0, 1080, 40>>>>, 780, 300>>
    /\ calc.result = 90 * Scale

\* C10: with T = (day-1)*1440 + hour*60 + minute, change_minute(delta) moves T
\* by delta and change_hour(delta) by 60*delta whenever the moved T is >= 0;
\* when it is negative, day is 1 and hour and minute are the wrapped ones.
C10_CarryLosesNothing ==
    (calc.done /\ calc.fn \in {"change_minute", "change_hour"}) =>
        LET pre == calc.args[1]
            d == calc.args[2]
            want == PendingT(pre) + (IF calc.fn = "change_minute" THEN d ELSE 60 * d)
        IN  /\ want >= 0 => PendingT(PendingState) = want
            /\ want < 0 => (day = 1 /\ hour * 60 + minute = want % 1440)
            /\ hour \in 0..23
            /\ minute \in 0..59
            /\ dose_value = pre.dose_value

\* change_minute(10) at day 1, 23:55 has carried through the hour into the
\* day: day 2, 00:05.
C10_Witness ==
    /\ calc.done
    /\ calc.fn = "change_minute"
    /\ calc.args = <<[dose_value |-> 100, day |-> 1, hour |-> 23, minute |-> 55], 10>>
    /\ <<day, hour, minute>> = <<2, 0, 5>>

====
